---- MODULE Spec2Model ----
(***************************************************************************)
(* Shim DMA buffer-descriptor pool and profiling sessions of zynqaie::Aie  *)
(* (XRT edge AIE array).  One shim column (column 0) is modelled.  The     *)
(* hardware DMA queues, the kernel's dma-buf attachments and mappings and  *)
(* the tile resource pool are the environment.                             *)
(***************************************************************************)
EXTENDS Integers, Sequences, FiniteSets, TLC

(* ------------------------------------------------------------------ *)
(* Bounds of the model                                                *)
(* ------------------------------------------------------------------ *)
\* value XAie_DmaGetMaxQueueSize reports for the shim tile
maxqSize == 2
\* prepare_bd invocations explored (every one is a submission reaching the
\* descriptor stage)
MaxSubmits == 3
\* failures injected into xrtBOExport / ioctl / mmap
MaxFaults == 2
\* session records explored
MaxSessions == 2
\* performance counters and stream switch event ports of the shim PL module
NumCounters == 1
NumEventPorts == 1
\* stop_profiling runs of the release loop explored per handle
MaxStopRuns == 2

(* ------------------------------------------------------------------ *)
(* Program constants                                                  *)
(* ------------------------------------------------------------------ *)
XAIEDMA_SHIM_TXFER_LEN32_MASK == 3
XAIEDMA_SHIM_MAX_NUM_CHANNELS == 4
IO_STREAM_RUNNING_EVENT_COUNT == 0
\* mmap's MAP_FAILED
MAP_FAILED == -1
\* nullptr / a field never assigned
NULL == 0
\* xrtBOSize of the buffers submitted
BoSize == 8

DMA_MM2S == "DMA_MM2S"
DMA_S2MM == "DMA_S2MM"
XCL_BO_SYNC_BO_GMIO_TO_AIE == "GMIO_TO_AIE"
XCL_BO_SYNC_BO_AIE_TO_GMIO == "AIE_TO_GMIO"
XCL_BO_SYNC_BO_TO_DEVICE == "TO_DEVICE"
SyncDirections ==
  {XCL_BO_SYNC_BO_GMIO_TO_AIE, XCL_BO_SYNC_BO_AIE_TO_GMIO, XCL_BO_SYNC_BO_TO_DEVICE}

Chans == 0..(XAIEDMA_SHIM_MAX_NUM_CHANNELS - 1)
\* transfer sizes: a multiple of 4, an even non-multiple, an odd one
Sizes == {4, 6, 7}

(* ------------------------------------------------------------------ *)
(* Port tables (gmios, plios): read-only after construction           *)
(* ------------------------------------------------------------------ *)
Gmio(n, ch, ty, sid) ==
  [name |-> n, shim_col |-> 0, channel_number |-> ch, type |-> ty, stream_id |-> sid]

Plio(n, ln, master, sid) ==
  [name |-> n, logical_name |-> ln, shim_col |-> 0, is_master |-> master,
   stream_id |-> sid]

\* the GMIO tables the array is constructed with, one per run
GmioTables ==
  { << Gmio("in0", 2, 0, 2), Gmio("out0", 0, 1, 3) >>,
    << Gmio("in1", 2, 0, 2), Gmio("out1", 0, 1, 3) >> }

\* the tables the DMA protocol is explored with
DmaTables == { << Gmio("in0", 2, 0, 2) >>, << Gmio("out0", 0, 1, 3) >> }

\* tables for the case of two ports of opposite directions on one channel
\* number, next to a table with a single port
SharedTables ==
  { << Gmio("in0", 2, 0, 2), Gmio("out0", 2, 1, 3) >>, << Gmio("in0", 2, 0, 2) >> }

\* "in1" is also a PLIO name, "out1" is also a PLIO logical name
plios ==
  << Plio("p0", "lp0", TRUE, 4),
     Plio("in1", "lin1", FALSE, 5),
     Plio("p2", "out1", TRUE, 6) >>

PortNames == {"in0", "out0", "in1", "out1", "p0", "lp0", "nope"}

\* the names the DMA calls are made with: each is the port of one table of
\* DmaTables and no port of the other
DmaNames == {"in0", "out0"}

(* ------------------------------------------------------------------ *)
(* Helpers                                                            *)
(* ------------------------------------------------------------------ *)
RECURSIVE BitAnd(_, _)
BitAnd(a, b) ==
  IF a = 0 \/ b = 0 THEN 0
  ELSE (IF a % 2 = 1 /\ b % 2 = 1 THEN 1 ELSE 0) + 2 * BitAnd(a \div 2, b \div 2)

\* aie.h: logical channels 0,1 and 2,3 both sit on physical channels 0,1
CONVERT_LCHANL_TO_PCHANL(l_ch) == IF l_ch > 1 THEN l_ch - 2 ELSE l_ch

\* gmio.type == 0 ? DMA_MM2S : DMA_S2MM
GmDir(g) == IF g.type = 0 THEN DMA_MM2S ELSE DMA_S2MM

\* the hardware queue a port's descriptors are pushed to
HwKey(g) == << CONVERT_LCHANL_TO_PCHANL(g.channel_number), GmDir(g) >>

HwKeys == (0..1) \X {DMA_MM2S, DMA_S2MM}

\* std::find_if over a table by name: index of the first match, 0 for end()
RECURSIVE FindByName(_, _, _)
FindByName(tab, nm, i) ==
  IF i > Len(tab) THEN 0
  ELSE IF tab[i].name = nm THEN i
  ELSE FindByName(tab, nm, i + 1)

\* std::find_if over plios by logical name
RECURSIVE FindByLogicalName(_, _, _)
FindByLogicalName(tab, nm, i) ==
  IF i > Len(tab) THEN 0
  ELSE IF tab[i].logical_name = nm THEN i
  ELSE FindByLogicalName(tab, nm, i + 1)

FindGmio(tab, nm) == FindByName(tab, nm, 1)

FindPlio(nm) ==
  LET i == FindByName(plios, nm, 1)
  IN IF i = 0 THEN FindByLogicalName(plios, nm, 1) ELSE i

\* a descriptor slot; tk is the submission it is bound to (0: none)
BD(n) == [bd_num |-> n, buf_fd |-> NULL, vaddr |-> NULL, size |-> NULL, tk |-> 0]

\* Aie::Aie, the loop pushing maxqSize slots for one GMIO
NewSlots(chan) ==
  [i \in 1..maxqSize |-> BD(chan * maxqSize + (i - 1))]

\* Aie::Aie, the loop over the GMIO table
RECURSIVE InitIdle(_, _, _)
InitIdle(tab, i, q) ==
  IF i > Len(tab) THEN q
  ELSE LET ch == tab[i].channel_number
       IN InitIdle(tab, i + 1, [q EXCEPT ![ch] = q[ch] \o NewSlots(ch)])


(* ------------------------------------------------------------------ *)
(* State                                                              *)
(* ------------------------------------------------------------------ *)
VARIABLES
  devInst,       \* Aie::devInst is non-null
  gmios,         \* Aie::gmios
  idle_bds,      \* shim_dma[0].dma_chan[chan].idle_bds
  pend_bds,      \* shim_dma[0].dma_chan[chan].pend_bds
  pend_gap,      \* pop() calls on the empty pend_bds that no push has made up for
  eventRecords,  \* Aie::eventRecords
  hwq,           \* hardware: descriptors queued and not completed, per queue
  attached,      \* kernel: dma-buf fds attached to the AIE partition
  mapped,        \* kernel: live mmap regions of the process
  counterOwner,  \* resource pool: owner of each PL performance counter
  portOwner,     \* resource pool: owner of each PL stream event port
  perfCtl,       \* hardware: counter control programmed (start/stop events set)
  strmPort,      \* hardware: stream event port selected
  pc,            \* where the calling thread is
  cur,           \* the call in progress
  ret,           \* outcome of the last call that returned: OK, or the throw
  nprep,         \* prepare_bd invocations so far
  faults,        \* injected failures so far
  rlog,          \* every clear_bd call so far, in call order
  stopRuns,      \* per handle, runs of stop_profiling's release loop
  orderLog,      \* per handle, the resource kinds in the order start_profiling
                 \* requested them and in the order the last stop released them
  ub             \* front()/pop() has been applied to an empty queue

dmaVars == << idle_bds, pend_bds, pend_gap, hwq, attached, mapped, nprep, rlog, ub >>
profVars ==
  << eventRecords, counterOwner, portOwner, perfCtl, strmPort, stopRuns, orderLog >>
vars == << devInst, gmios, dmaVars, profVars, pc, cur, ret, faults >>

\* owners in the resource pool
FREE == -1
EXT == -2

\* a stream event port that selects nothing
NoSel == [on |-> FALSE, mode |-> "", stream_id |-> 0]

NoCall == [op |-> "none", g |-> 0, dir |-> "", size |-> 0, idle0 |-> 0, pend0 |-> 0]
NoRet == [fn |-> "none", code |-> "OK", msg |-> "", val |-> -1]

\* the state Aie::Aie leaves, for a GMIO table out of tabs
Constructed(tabs) ==
  /\ devInst = TRUE
  /\ gmios \in tabs
  /\ idle_bds = InitIdle(gmios, 1, [c \in Chans |-> << >>])
  /\ pend_bds = [c \in Chans |-> << >>]
  /\ pend_gap = [c \in Chans |-> 0]
  /\ eventRecords = << >>
  /\ hwq = [k \in HwKeys |-> << >>]
  /\ attached = {}
  /\ mapped = {}
  /\ counterOwner = [c \in 0..(NumCounters - 1) |-> FREE]
  /\ portOwner = [p \in 0..(NumEventPorts - 1) |-> FREE]
  /\ perfCtl = [c \in 0..(NumCounters - 1) |-> FALSE]
  /\ strmPort = [p \in 0..(NumEventPorts - 1) |-> NoSel]
  /\ pc = "ready"
  /\ cur = NoCall
  /\ ret = NoRet
  /\ nprep = 0
  /\ faults = 0
  /\ rlog = << >>
  /\ stopRuns = [h \in 0..(MaxSessions - 1) |-> 0]
  /\ orderLog = [h \in 0..(MaxSessions - 1) |-> [req |-> << >>, rel |-> << >>]]
  /\ ub = FALSE

Init == Constructed(GmioTables)

InitDma == Constructed(DmaTables)

InitShared == Constructed(SharedTables)


(* ------------------------------------------------------------------ *)
(* Shim DMA: descriptor binding and release                           *)
(* ------------------------------------------------------------------ *)
PrepOutcomes == {"ok", "export_fail", "attach_fail", "mmap_fail"}
UbOutcomes == {"crash", "throw", "garbage"}
\* descriptor numbers a read of an empty queue's storage may yield
GarbageBdNums == {0, 2 * maxqSize}

Min(a, b) == IF a < b THEN a ELSE b

\* the descriptor of submission t is still queued in hardware
InFlightTk(t) == \E k \in HwKeys : \E j \in 1..Len(hwq[k]) : hwq[k][j].tk = t

\* Aie::prepare_bd: export, attach, mmap.  The fd xrtBOExport hands out and
\* the address mmap answers are fresh; both are named by the number fd of
\* this invocation.
prepare_bd(bd, fd, po) ==
  CASE po = "export_fail" ->
         [bd |-> bd, att |-> {}, map |-> {}, threw |-> "export_failed"]
    [] po = "attach_fail" ->
         [bd |-> [bd EXCEPT !.buf_fd = fd], att |-> {}, map |-> {},
          threw |-> "attach_failed"]
    [] po = "mmap_fail" ->
         [bd |-> [bd EXCEPT !.buf_fd = fd, !.size = BoSize, !.vaddr = MAP_FAILED],
          att |-> {fd}, map |-> {}, threw |-> ""]
    [] OTHER ->
         [bd |-> [bd EXCEPT !.buf_fd = fd, !.size = BoSize, !.vaddr = fd],
          att |-> {fd}, map |-> {fd}, threw |-> ""]

\* a faulty clear_bd: the buffer is never detached
clear_bdNoDetach(bd, st, fail) ==
  [bd |-> [bd EXCEPT !.vaddr = NULL],
   mapped |-> st.mapped \ {bd.vaddr},
   attached |-> st.attached,
   threw |-> fail]

\* Aie::clear_bd on a copy of the slot: munmap, then detach (which may fail)
clear_bd(bd, st, fail) ==
  [bd |-> [bd EXCEPT !.vaddr = NULL],
   mapped |-> st.mapped \ {bd.vaddr},
   attached |-> IF fail THEN st.attached ELSE st.attached \ {bd.buf_fd},
   threw |-> fail]

\* pend_bds.front()
PendFront(q) == Head(q)

\* a faulty PendPush: the slot is put at the front
PendPushFront(q, bd) == << bd >> \o q

\* pend_bds.push(bd)
PendPush(q, bd) == Append(q, bd)

\* one entry of rlog
Released(bd, ch, site, ok) ==
  [tk |-> bd.tk, ch |-> ch, site |-> site,
   inflight |-> InFlightTk(bd.tk), ok |-> ok]

\* the drain loops of submit_sync_bo and wait_sync_bo: iterations i..n over the
\* front of pend_bds; the detach of iteration failAt fails (0: none does)
RECURSIVE DrainLoop(_, _, _, _, _, _)
DrainLoop(st, i, n, failAt, site, ch) ==
  IF i > n \/ st.threw THEN st
  ELSE LET bd == PendFront(st.pend)
           c == clear_bd(bd, st, i = failAt)
           nx == IF c.threw
                 THEN [st EXCEPT !.mapped = c.mapped,
                                 !.rlog = Append(@, Released(bd, ch, site, FALSE)),
                                 !.threw = TRUE]
                 ELSE [st EXCEPT !.mapped = c.mapped,
                                 !.attached = c.attached,
                                 !.rlog = Append(@, Released(bd, ch, site, TRUE)),
                                 !.pend = Tail(@),
                                 !.idle = Append(@, c.bd)]
       IN DrainLoop(nx, i + 1, n, failAt, site, ch)

\* the state a drain works on, for channel ch
DrainState(ch) ==
  [idle |-> idle_bds[ch], pend |-> pend_bds[ch], gap |-> pend_gap[ch],
   attached |-> attached,
   mapped |-> mapped, rlog |-> rlog, threw |-> FALSE, ub |-> FALSE,
   crashed |-> FALSE]

\* submit_sync_bo, one pass of the body of `while (idle_bds.empty())`:
\* num_comp iterations.  An iteration that finds pend_bds empty applies
\* front() and pop() to an empty std::queue.  What follows is one of: the
\* process dies; clear_bd throws on what front() read; or (libstdc++'s deque)
\* what front() read lands in idle_bds and pop() moves the queue's start past
\* its finish, so that the next push() is swallowed.
SpinPass(st, num_comp, failAt, uo, gb, ch) ==
  LET m == Min(num_comp, Len(st.pend))
      s1 == DrainLoop(st, 1, m, failAt, "spin", ch)
  IN IF s1.threw \/ num_comp <= Len(st.pend) THEN s1
     ELSE CASE uo = "crash" -> [s1 EXCEPT !.ub = TRUE, !.crashed = TRUE]
            [] uo = "throw" -> [s1 EXCEPT !.ub = TRUE, !.threw = TRUE]
            [] OTHER ->
                 [s1 EXCEPT !.ub = TRUE,
                            !.gap = @ + (num_comp - m),
                            !.idle = @ \o [i \in 1..(num_comp - m) |-> BD(gb)]]

\* a faulty WaitForDone: the answer of the poll is not looked at
WaitForDoneIgnored(key) == TRUE

\* XAie_DmaWaitForDone(...) == XAIE_OK: nothing is queued on the channel
WaitForDone(key) == hwq[key] = << >>

(* ------------------------------------------------------------------ *)
(* Shim DMA: the public calls                                         *)
(* ------------------------------------------------------------------ *)
\* fn: the function that returned normally, or the one whose throw ended the call
MkRet(fn, code, msg, val) ==
  [fn |-> fn, code |-> code, msg |-> msg, val |-> val]

\* a throw that precedes every change of state
Reject(fn, code, msg) ==
  /\ ret' = MkRet(fn, code, msg, -1)
  /\ pc' = "ready"
  /\ cur' = NoCall
  /\ UNCHANGED << devInst, gmios, dmaVars, profVars, faults >>

\* a faulty DirErr: the two cases test the other type
DirErrSwapped(g, dir) ==
  CASE dir = XCL_BO_SYNC_BO_GMIO_TO_AIE ->
         IF g.type # 1 THEN "direction_mismatch" ELSE ""
    [] dir = XCL_BO_SYNC_BO_AIE_TO_GMIO ->
         IF g.type # 0 THEN "direction_mismatch" ELSE ""
    [] OTHER -> "unknown_direction"

\* submit_sync_bo, the switch on dir
DirErr(g, dir) ==
  CASE dir = XCL_BO_SYNC_BO_GMIO_TO_AIE ->
         IF g.type # 0 THEN "direction_mismatch" ELSE ""
    [] dir = XCL_BO_SYNC_BO_AIE_TO_GMIO ->
         IF g.type # 1 THEN "direction_mismatch" ELSE ""
    [] OTHER -> "unknown_direction"

\* submit_sync_bo: `size & XAIEDMA_SHIM_TXFER_LEN32_MASK != 0`; != binds
\* tighter than &, so size is and-ed with the value of (MASK != 0)
SizeRejected(size) ==
  BitAnd(size, IF XAIEDMA_SHIM_TXFER_LEN32_MASK # 0 THEN 1 ELSE 0) # 0

\* submit_sync_bo, the checks before the pool is touched
SubmitPreErr(g, dir, size) ==
  IF DirErr(g, dir) # "" THEN DirErr(g, dir)
  ELSE IF SizeRejected(size) THEN "size_not_aligned"
  ELSE ""

\* the queues, kernel state and log a drain leaves behind
WriteBack(st, ch) ==
  /\ idle_bds' = [idle_bds EXCEPT ![ch] = st.idle]
  /\ pend_bds' = [pend_bds EXCEPT ![ch] = st.pend]
  /\ pend_gap' = [pend_gap EXCEPT ![ch] = st.gap]
  /\ attached' = st.attached
  /\ mapped' = st.mapped
  /\ rlog' = st.rlog
  /\ ub' = (ub \/ st.ub)

\* submit_sync_bo from `BD bd = idle_bds.front()` to the end
SubmitTail(c, st, po, nf) ==
  LET g == gmios[c.g]
      ch == g.channel_number
      bd == Head(st.idle)
      tk == nprep + 1
      p == prepare_bd(bd, tk, po)
      bd2 == [p.bd EXCEPT !.tk = tk]
  IN /\ idle_bds' = [idle_bds EXCEPT ![ch] = Tail(st.idle)]
     /\ nprep' = nprep + 1
     /\ rlog' = st.rlog
     /\ ub' = (ub \/ st.ub)
     /\ faults' = faults + nf
     /\ IF p.threw # ""
        THEN /\ pend_bds' = [pend_bds EXCEPT ![ch] = st.pend]
             /\ pend_gap' = [pend_gap EXCEPT ![ch] = st.gap]
             /\ attached' = st.attached
             /\ mapped' = st.mapped
             /\ UNCHANGED hwq
             /\ pc' = "ready"
             /\ cur' = NoCall
             /\ ret' = MkRet("prepare_bd", "errno", p.threw, -1)
        ELSE /\ pend_bds' = [pend_bds EXCEPT ![ch] =
                               IF st.gap > 0 THEN st.pend ELSE PendPush(st.pend, bd2)]
             /\ pend_gap' = [pend_gap EXCEPT ![ch] = IF st.gap > 0 THEN st.gap - 1 ELSE 0]
             /\ attached' = st.attached \cup p.att
             /\ mapped' = st.mapped \cup p.map
             /\ hwq' = [hwq EXCEPT ![HwKey(g)] =
                          Append(@, [bd_num |-> bd.bd_num, tk |-> tk, g |-> c.g,
                                     dir |-> c.dir, size |-> c.size,
                                     vaddr |-> p.bd.vaddr])]
             /\ IF c.op = "sync_bo"
                THEN pc' = "wait" /\ cur' = c /\ ret' = ret
                ELSE /\ pc' = "ready"
                     /\ cur' = NoCall
                     /\ ret' = MkRet(c.op, "OK", "", -1)

\* submit_sync_bo once its checks have passed: spin when idle_bds is empty
submit_sync_bo(op, gi, dir, size) ==
  LET ch == gmios[gi].channel_number
      c == [op |-> op, g |-> gi, dir |-> dir, size |-> size,
            idle0 |-> Len(idle_bds[ch]), pend0 |-> Len(pend_bds[ch])]
  IN /\ nprep < MaxSubmits
     /\ UNCHANGED << devInst, gmios, profVars >>
     /\ IF idle_bds[ch] = << >>
        THEN /\ pc' = "spin"
             /\ cur' = c
             /\ UNCHANGED << ret, faults, dmaVars >>
        ELSE \E po \in PrepOutcomes :
               /\ po # "ok" => faults < MaxFaults
               /\ SubmitTail(c, DrainState(ch), po, IF po = "ok" THEN 0 ELSE 1)

\* sync_bo / sync_bo_nb up to the call of submit_sync_bo, and its checks
SyncCall(op, nm, dir, size) ==
  /\ pc = "ready"
  /\ IF ~devInst THEN Reject(op, "EINVAL", "not_initialized")
     ELSE LET gi == FindGmio(gmios, nm)
          IN IF gi = 0 THEN Reject(op, "EINVAL", "gmio_not_found")
             ELSE IF SubmitPreErr(gmios[gi], dir, size) # ""
                  THEN Reject("submit_sync_bo", "EINVAL",
                              SubmitPreErr(gmios[gi], dir, size))
                  ELSE submit_sync_bo(op, gi, dir, size)

sync_bo(nm, dir, size) == SyncCall("sync_bo", nm, dir, size)

sync_bo_nb(nm, dir, size) == SyncCall("sync_bo_nb", nm, dir, size)

\* submit_sync_bo spinning: one pass of the loop that finds something to do,
\* then the rest of the submission
spin_poll ==
  /\ pc = "spin"
  /\ LET g == gmios[cur.g]
         ch == g.channel_number
         npend == Len(hwq[HwKey(g)])
         num_comp == maxqSize - npend
     IN /\ num_comp > 0
        /\ UNCHANGED << devInst, gmios, profVars >>
        /\ \E failAt \in 0..Min(num_comp, Len(pend_bds[ch])),
              uo \in UbOutcomes, gb \in GarbageBdNums :
             /\ failAt # 0 => faults < MaxFaults
             /\ LET st == SpinPass(DrainState(ch), num_comp, failAt, uo, gb, ch)
                    nf == IF failAt # 0 THEN 1 ELSE 0
                IN IF st.crashed \/ st.threw
                   THEN /\ WriteBack(st, ch)
                        /\ UNCHANGED << hwq, nprep >>
                        /\ faults' = faults + nf
                        /\ cur' = NoCall
                        /\ IF st.crashed
                           THEN pc' = "crashed" /\ ret' = ret
                           ELSE /\ pc' = "ready"
                                /\ ret' = MkRet("clear_bd", "errno", "detach_failed", -1)
                   ELSE \E po \in PrepOutcomes :
                          /\ po # "ok" => faults < MaxFaults
                          /\ SubmitTail(cur, st, po, IF po = "ok" THEN 0 ELSE 1)

\* wait_gmio up to the call of wait_sync_bo
wait_gmio(nm) ==
  /\ pc = "ready"
  /\ IF ~devInst THEN Reject("wait_gmio", "EINVAL", "not_initialized")
     ELSE LET gi == FindGmio(gmios, nm)
          IN IF gi = 0 THEN Reject("wait_gmio", "EINVAL", "gmio_not_found")
             ELSE LET ch == gmios[gi].channel_number
                  IN /\ pc' = "wait"
                     /\ cur' = [op |-> "wait_gmio", g |-> gi, dir |-> "", size |-> 0,
                                idle0 |-> Len(idle_bds[ch]),
                                pend0 |-> Len(pend_bds[ch])]
                     /\ UNCHANGED << devInst, gmios, dmaVars, profVars, ret, faults >>

\* wait_sync_bo: XAie_DmaWaitForDone answers XAIE_OK, then the drain of
\* the whole of pend_bds.  A queue whose start is past its finish is not
\* empty(): the loop reads what is not there until clear_bd throws or the
\* process dies.
wait_sync_bo ==
  /\ pc = "wait"
  /\ LET g == gmios[cur.g]
         ch == g.channel_number
     IN /\ WaitForDone(HwKey(g))
        /\ IF pend_gap[ch] > 0
           THEN \E uo \in UbOutcomes :
                  /\ ub' = TRUE
                  /\ IF uo = "throw"
                     THEN /\ pc' = "ready"
                          /\ ret' = MkRet("clear_bd", "errno", "detach_failed", -1)
                     ELSE pc' = "crashed" /\ ret' = ret
                  /\ UNCHANGED << idle_bds, pend_bds, pend_gap, attached, mapped, rlog,
                                  faults >>
           ELSE \E failAt \in 0..Len(pend_bds[ch]) :
                  /\ failAt # 0 => faults < MaxFaults
                  /\ LET st == DrainLoop(DrainState(ch), 1, Len(pend_bds[ch]),
                                         failAt, "wait", ch)
                     IN /\ WriteBack(st, ch)
                        /\ faults' = faults + (IF failAt # 0 THEN 1 ELSE 0)
                        /\ ret' = IF st.threw
                                  THEN MkRet("clear_bd", "errno", "detach_failed", -1)
                                  ELSE MkRet(cur.op, "OK", "", -1)
                  /\ pc' = "ready"
        /\ cur' = NoCall
        /\ UNCHANGED << devInst, gmios, profVars, hwq, nprep >>

\* the shim DMA completes the oldest descriptor of one of its queues
hw_complete(k) ==
  /\ hwq[k] # << >>
  /\ hwq' = [hwq EXCEPT ![k] = Tail(@)]
  /\ UNCHANGED << devInst, gmios, idle_bds, pend_bds, pend_gap, attached, mapped,
                  nprep, rlog, ub, profVars, pc, cur, ret, faults >>

\* Aie::reset; resetAIEArray may fail
reset(fail) ==
  /\ pc = "ready"
  /\ IF ~devInst THEN Reject("reset", "EINVAL", "not_initialized")
     ELSE /\ fail => faults < MaxFaults
          /\ devInst' = FALSE
          /\ faults' = faults + (IF fail THEN 1 ELSE 0)
          /\ ret' = IF fail THEN MkRet("reset", "errno", "reset_failed", -1)
                    ELSE MkRet("reset", "OK", "", -1)
          /\ pc' = "ready"
          /\ cur' = NoCall
          /\ UNCHANGED << gmios, dmaVars, profVars >>

NextDma ==
  \/ \E nm \in DmaNames, dir \in SyncDirections, size \in Sizes : sync_bo(nm, dir, size)
  \/ \E nm \in DmaNames, dir \in SyncDirections, size \in Sizes : sync_bo_nb(nm, dir, size)
  \/ \E nm \in DmaNames : wait_gmio(nm)
  \/ spin_poll
  \/ wait_sync_bo
  \/ \E k \in HwKeys : hw_complete(k)
  \/ \E fail \in BOOLEAN : reset(fail)

SpecDma == InitDma /\ [][NextDma]_vars

SpecShared == InitShared /\ [][NextDma]_vars


(* ------------------------------------------------------------------ *)
(* Profiling sessions                                                 *)
(* ------------------------------------------------------------------ *)
\* the tile's resource pool: the lowest free id, -1 when none is free
RequestId(own) ==
  IF \E i \in DOMAIN own : own[i] = FREE
  THEN CHOOSE i \in DOMAIN own :
         own[i] = FREE /\ \A j \in DOMAIN own : own[j] = FREE => i <= j
  ELSE -1

\* the pool after a request by owner h was answered with id
Grant(own, id, h) == IF id >= 0 THEN [own EXCEPT ![id] = h] ELSE own

\* the pool after owner h released id: only the owner's release frees it
ReleaseRes(own, h, id) ==
  IF id \in DOMAIN own /\ own[id] = h THEN [own EXCEPT ![id] = FREE] ELSE own

ProfOptions == {IO_STREAM_RUNNING_EVENT_COUNT, IO_STREAM_RUNNING_EVENT_COUNT + 1}

\* a faulty PortErr: the test for a name in both tables is missing
PortErrNoAmbiguity(gi, pi) ==
  IF gi = 0 /\ pi = 0 THEN "port_not_found" ELSE ""

\* start_profiling, the port lookup: the error it throws, "" when it passes
PortErr(gi, pi) ==
  IF gi = 0 /\ pi = 0 THEN "port_not_found"
  ELSE IF gi # 0 /\ pi # 0 THEN "ambiguous_port"
  ELSE ""

\* start_profiling: mode and stream id of the port that matched
PortSel(gi, pi) ==
  IF gi # 0
  THEN [on |-> TRUE,
        mode |-> IF gmios[gi].type = 1 THEN "XAIE_STRMSW_MASTER" ELSE "XAIE_STRMSW_SLAVE",
        stream_id |-> gmios[gi].stream_id]
  ELSE [on |-> TRUE,
        mode |-> IF plios[pi].is_master THEN "XAIE_STRMSW_MASTER" ELSE "XAIE_STRMSW_SLAVE",
        stream_id |-> plios[pi].stream_id]

\* a faulty SessionRecord: the event port is listed first
SessionRecordPortFirst(option, counterId, eventPortId) ==
  [option |-> option,
   acquiredResources |->
     << [module |-> "pl_module", resource |-> "stream_switch_event_port",
         id |-> eventPortId],
        [module |-> "pl_module", resource |-> "performance_counter", id |-> counterId] >>]

\* start_profiling, the record pushed to eventRecords
SessionRecord(option, counterId, eventPortId) ==
  [option |-> option,
   acquiredResources |->
     << [module |-> "pl_module", resource |-> "performance_counter", id |-> counterId],
        [module |-> "pl_module", resource |-> "stream_switch_event_port",
         id |-> eventPortId] >>]

\* a faulty Unwind: the granted resource is kept
UnwindLeak(own, handleId, id) == own

\* start_profiling, the else branch: what the pool holds after the releases
Unwind(own, handleId, id) ==
  IF id >= 0 THEN ReleaseRes(own, handleId, id) ELSE own

\* a faulty HandleId: handles count from one
HandleIdFromOne(records) == Len(records) + 1

\* start_profiling: int handleId = eventRecords.size()
HandleId(records) == Len(records)

\* a faulty RequestOrder: the counter is requested first
RequestOrderCounterFirst == << "performance_counter", "stream_switch_event_port" >>

\* start_profiling: the order of its two requests to the pool
RequestOrder == << "stream_switch_event_port", "performance_counter" >>

\* start_profiling from the two requests on
Acquire(option, gi, pi) ==
  LET handleId == HandleId(eventRecords)
      eventPortId == RequestId(portOwner)
      ports1 == Grant(portOwner, eventPortId, handleId)
      counterId == RequestId(counterOwner)
      ctrs1 == Grant(counterOwner, counterId, handleId)
  IN IF counterId >= 0 /\ eventPortId >= 0
     THEN /\ strmPort' = [strmPort EXCEPT ![eventPortId] = PortSel(gi, pi)]
          /\ perfCtl' = [perfCtl EXCEPT ![counterId] = TRUE]
          /\ eventRecords' =
               Append(eventRecords, SessionRecord(option, counterId, eventPortId))
          /\ counterOwner' = ctrs1
          /\ portOwner' = ports1
          /\ orderLog' = [orderLog EXCEPT ![Len(eventRecords)].req = RequestOrder]
          /\ ret' = MkRet("start_profiling", "OK", "", handleId)
     ELSE /\ counterOwner' = Unwind(ctrs1, handleId, counterId)
          /\ portOwner' = Unwind(ports1, handleId, eventPortId)
          /\ UNCHANGED << strmPort, perfCtl, eventRecords, orderLog >>
          /\ ret' = MkRet("start_profiling", "EAGAIN", "resource_exhausted", -1)

start_profiling(option, nm) ==
  /\ pc = "ready"
  /\ IF ~devInst THEN Reject("start_profiling", "EINVAL", "not_initialized")
     ELSE IF option # IO_STREAM_RUNNING_EVENT_COUNT
     THEN Reject("start_profiling", "EINVAL", "unknown_option")
     ELSE LET gi == FindGmio(gmios, nm)
              pi == FindPlio(nm)
          IN IF PortErr(gi, pi) # ""
             THEN Reject("start_profiling", "EINVAL", PortErr(gi, pi))
             ELSE /\ Len(eventRecords) < MaxSessions
                  /\ Acquire(option, gi, pi)
                  /\ pc' = "ready"
                  /\ cur' = NoCall
                  /\ UNCHANGED << devInst, gmios, dmaVars, stopRuns, faults >>

\* stop_profiling, the guard: phdl is compared as a size_t, so a negative
\* handle is above every size
StopGuard(phdl) ==
  /\ phdl >= 0
  /\ phdl < Len(eventRecords)
  /\ eventRecords[phdl + 1].option >= 0

\* stop_profiling, the loop over acquiredResources from index i on;
\* hw is the pool, the hardware configuration and the kinds handled so far
RECURSIVE StopLoop(_, _, _, _)
StopLoop(hw, res, i, phdl) ==
  IF i > Len(res) THEN hw
  ELSE LET r == res[i]
           nx == IF r.resource = "performance_counter"
                 THEN [hw EXCEPT !.perfCtl[r.id] = FALSE,
                                 !.rel = Append(@, r.resource),
                                 !.counterOwner =
                                    IF r.module = "pl_module"
                                    THEN ReleaseRes(@, phdl, r.id) ELSE @]
                 ELSE IF r.resource = "stream_switch_event_port"
                 THEN [hw EXCEPT !.strmPort[r.id] = NoSel,
                                 !.rel = Append(@, r.resource),
                                 !.portOwner =
                                    IF r.module = "pl_module"
                                    THEN ReleaseRes(@, phdl, r.id) ELSE @]
                 ELSE hw
       IN StopLoop(nx, res, i + 1, phdl)

stop_profiling(phdl) ==
  /\ pc = "ready"
  /\ IF StopGuard(phdl)
     THEN /\ stopRuns[phdl] < MaxStopRuns
          /\ LET hw == StopLoop([counterOwner |-> counterOwner, portOwner |-> portOwner,
                                 perfCtl |-> perfCtl, strmPort |-> strmPort,
                                 rel |-> << >>],
                                eventRecords[phdl + 1].acquiredResources, 1, phdl)
             IN /\ counterOwner' = hw.counterOwner
                /\ portOwner' = hw.portOwner
                /\ perfCtl' = hw.perfCtl
                /\ strmPort' = hw.strmPort
                /\ orderLog' = [orderLog EXCEPT ![phdl].rel = hw.rel]
          /\ stopRuns' = [stopRuns EXCEPT ![phdl] = @ + 1]
     ELSE UNCHANGED << counterOwner, portOwner, perfCtl, strmPort, stopRuns, orderLog >>
  /\ ret' = MkRet("stop_profiling", "OK", "", -1)
  /\ pc' = "ready"
  /\ cur' = NoCall
  /\ UNCHANGED << devInst, gmios, dmaVars, eventRecords, faults >>

\* Aie::read_profiling.  There is no test of phdl against eventRecords.size():
\* an out-of-range phdl reads past the vector, after which the process dies,
\* or the resource read is no performance counter and the call throws, or it
\* is one and the call returns what XAie_PerfCounterGet leaves in value.
\* Counter values are not modelled: a read returns 0.
read_profiling(phdl) ==
  /\ pc = "ready"
  /\ IF phdl >= 0 /\ phdl < Len(eventRecords)
     THEN /\ ret' = IF eventRecords[phdl + 1].acquiredResources[1].resource
                          = "performance_counter"
                    THEN MkRet("read_profiling", "OK", "", 0)
                    ELSE MkRet("read_profiling", "EAGAIN", "resource_order", -1)
          /\ pc' = "ready"
          /\ UNCHANGED ub
     ELSE \E uo \in UbOutcomes :
            /\ ub' = TRUE
            /\ CASE uo = "crash" -> pc' = "crashed" /\ ret' = ret
                 [] uo = "throw" ->
                      /\ pc' = "ready"
                      /\ ret' = MkRet("read_profiling", "EAGAIN", "resource_order", -1)
                 [] OTHER ->
                      pc' = "ready" /\ ret' = MkRet("read_profiling", "OK", "", 0)
  /\ cur' = NoCall
  /\ UNCHANGED << devInst, gmios, idle_bds, pend_bds, pend_gap, hwq, attached, mapped,
                  nprep, rlog, profVars, faults >>

\* another client of the tile's resource pool takes a counter or an event port
ext_request(kind) ==
  /\ IF kind = "performance_counter"
     THEN /\ RequestId(counterOwner) >= 0
          /\ counterOwner' = Grant(counterOwner, RequestId(counterOwner), EXT)
          /\ UNCHANGED portOwner
     ELSE /\ RequestId(portOwner) >= 0
          /\ portOwner' = Grant(portOwner, RequestId(portOwner), EXT)
          /\ UNCHANGED counterOwner
  /\ UNCHANGED << devInst, gmios, dmaVars, eventRecords, perfCtl, strmPort, stopRuns,
                  orderLog, pc, cur, ret, faults >>

\* ... and gives one back
ext_release(kind, id) ==
  /\ IF kind = "performance_counter"
     THEN /\ id \in DOMAIN counterOwner
          /\ counterOwner[id] = EXT
          /\ counterOwner' = ReleaseRes(counterOwner, EXT, id)
          /\ UNCHANGED portOwner
     ELSE /\ id \in DOMAIN portOwner
          /\ portOwner[id] = EXT
          /\ portOwner' = ReleaseRes(portOwner, EXT, id)
          /\ UNCHANGED counterOwner
  /\ UNCHANGED << devInst, gmios, dmaVars, eventRecords, perfCtl, strmPort, stopRuns,
                  orderLog, pc, cur, ret, faults >>

ResourceKinds == {"performance_counter", "stream_switch_event_port"}

NextProf ==
  \/ \E option \in ProfOptions, nm \in PortNames : start_profiling(option, nm)
  \/ \E phdl \in (-1)..MaxSessions : stop_profiling(phdl)
  \/ \E kind \in ResourceKinds : ext_request(kind)
  \/ \E kind \in ResourceKinds, id \in DOMAIN counterOwner \cup DOMAIN portOwner :
       ext_release(kind, id)

SpecProf == Init /\ [][NextProf]_vars

\* the profiling calls together with read_profiling and reset
NextSession ==
  \/ \E option \in ProfOptions, nm \in PortNames : start_profiling(option, nm)
  \/ \E phdl \in (-1)..MaxSessions : stop_profiling(phdl)
  \/ \E phdl \in (-1)..MaxSessions : read_profiling(phdl)
  \/ \E fail \in BOOLEAN : reset(fail)
  \/ \E kind \in ResourceKinds : ext_request(kind)
  \/ \E kind \in ResourceKinds, id \in DOMAIN counterOwner \cup DOMAIN portOwner :
       ext_release(kind, id)

SpecSession == Init /\ [][NextSession]_vars

Next == NextDma \/ NextSession

Spec == Init /\ [][Next]_vars


(* ------------------------------------------------------------------ *)
(* Properties                                                         *)
(* ------------------------------------------------------------------ *)
\* slots Aie::Aie gave channel ch
SlotsGiven(ch) == Len(InitIdle(gmios, 1, [c \in Chans |-> << >>])[ch])

\* a call is in progress on channel / hardware queue
CurChan == gmios[cur.g].channel_number
CurKey == HwKey(gmios[cur.g])

\* the step pushes a descriptor to the hardware queue of the call
Pushes == cur.g # 0 /\ Len(hwq'[CurKey]) > Len(hwq[CurKey])

\* C1 (conservation): on every channel, in every reachable state, the idle
\* and the pending queue together hold exactly the slots the channel was
\* given at construction, also after calls that failed in prepare_bd or
\* clear_bd.
C1_Conservation ==
  \A ch \in Chans : Len(idle_bds[ch]) + Len(pend_bds[ch]) = SlotsGiven(ch)

\* C5 (FIFO drain): on one channel clear_bd is called on descriptors in the
\* order of their submission, by the spin-wait drain and by wait_sync_bo: a
\* later clear_bd never names an earlier submission, a descriptor moved to
\* idle_bds is older than every later one, and nothing older than a moved
\* descriptor is still pending.
C5_FifoDrain ==
  /\ \A i, j \in 1..Len(rlog) :
       (i < j /\ rlog[i].ch = rlog[j].ch /\ rlog[i].tk # 0 /\ rlog[j].tk # 0)
         => /\ rlog[i].tk <= rlog[j].tk
            /\ rlog[i].ok => rlog[i].tk < rlog[j].tk
  /\ \A i \in 1..Len(rlog) :
       (rlog[i].ok /\ rlog[i].tk # 0)
         => \A p \in 1..Len(pend_bds[rlog[i].ch]) :
              rlog[i].tk < pend_bds[rlog[i].ch][p].tk

\* two submissions of one channel drained by one pass of the spin-wait loop
C5_Witness ==
  \E i, j \in 1..Len(rlog) :
    /\ i < j
    /\ rlog[i].ch = rlog[j].ch
    /\ rlog[i].site = "spin" /\ rlog[j].site = "spin"
    /\ rlog[i].ok /\ rlog[j].ok
    /\ 0 < rlog[i].tk /\ rlog[i].tk < rlog[j].tk

\* C6 (over-subscription), its safety part, in runs free of undefined
\* behaviour: every submission that pushes a descriptor to the hardware queue
\* pushes the same descriptor to the tail of pend_bds, and a submission that
\* found idle_bds empty pushes only when the hardware has completed at least
\* one of the channel's pending transfers.
C6_OverSubscription ==
  [][(Pushes /\ ~ub') =>
       /\ pend_bds'[CurChan] # << >>
       /\ pend_bds'[CurChan][Len(pend_bds'[CurChan])].tk
            = hwq'[CurKey][Len(hwq'[CurKey])].tk
       /\ pc = "spin" =>
            \E i \in 1..Len(pend_bds[CurChan]) :
              ~InFlightTk(pend_bds[CurChan][i].tk)]_vars

\* C7 (blocking sync): when sync_bo returns normally the hardware queue of
\* the port's channel and direction is empty, pend_bds of the channel is
\* empty, and, if pend_bds was empty when sync_bo was called, idle_bds holds
\* as many slots as it held then.
C7_BlockingSync ==
  [][(pc = "wait" /\ cur.op = "sync_bo" /\ pc' = "ready" /\ ret'.code = "OK")
       => /\ hwq[CurKey] = << >>
          /\ pend_bds'[CurChan] = << >>
          /\ pend_gap'[CurChan] = 0
          /\ cur.pend0 = 0 => Len(idle_bds'[CurChan]) = cur.idle0]_vars

\* a sync_bo that went through prepare_bd and the wait has returned normally
C7_Witness ==
  /\ pc = "ready"
  /\ ret.fn = "sync_bo"
  /\ ret.code = "OK"
  /\ \E i \in 1..Len(rlog) : rlog[i].site = "wait" /\ rlog[i].ok

\* C8 (length alignment): every descriptor that reaches the hardware queue
\* has a size that is a multiple of 4; other sizes are refused before a slot
\* is taken.
C8_LengthAlignment ==
  \A k \in HwKeys : \A j \in 1..Len(hwq[k]) : hwq[k][j].size % 4 = 0

\* the name is in the GMIO table
KnownGmio(nm) == \E i \in 1..Len(gmios) : gmios[i].name = nm

\* the direction asked for is the configured direction of port nm
DirMatches(nm, dir) ==
  \E i \in 1..Len(gmios) :
    /\ gmios[i].name = nm
    /\ \/ dir = XCL_BO_SYNC_BO_GMIO_TO_AIE /\ gmios[i].type = 0
       \/ dir = XCL_BO_SYNC_BO_AIE_TO_GMIO /\ gmios[i].type = 1

\* C9 (submission preconditions): sync_bo and sync_bo_nb on a name that is
\* not in the GMIO table throw the not-found error, and on a direction that
\* is not the port's throw a direction error, both with -EINVAL; the idle and
\* pending queues and the hardware queues are as before the call.
C9_SubmissionPreconditions ==
  [][\A nm \in DmaNames, dir \in SyncDirections, size \in Sizes :
       ( /\ pc = "ready"
         /\ devInst
         /\ ~KnownGmio(nm) \/ ~DirMatches(nm, dir)
         /\ sync_bo(nm, dir, size) \/ sync_bo_nb(nm, dir, size) )
         => /\ ~KnownGmio(nm)
                 => /\ ret'.code = "EINVAL" /\ ret'.msg = "gmio_not_found"
                    /\ UNCHANGED << idle_bds, pend_bds, hwq >>
            /\ (KnownGmio(nm) /\ ~DirMatches(nm, dir))
                 => /\ ret'.code = "EINVAL"
                    /\ ret'.msg \in {"direction_mismatch", "unknown_direction"}
                    /\ UNCHANGED << idle_bds, pend_bds, hwq >>]_vars

\* a direction mismatch was refused while a transfer was pending
C9_Witness ==
  /\ ret.fn = "submit_sync_bo"
  /\ ret.msg = "direction_mismatch"
  /\ \E ch \in Chans : pend_bds[ch] # << >>

\* C10 (bind failure unwinds): no descriptor queued in hardware carries a
\* failed mapping, and every buffer attached to the DMA address space belongs
\* to a slot in use (a failed bind left nothing attached).
C10_BindFailureUnwinds ==
  /\ \A k \in HwKeys : \A j \in 1..Len(hwq[k]) : hwq[k][j].vaddr # MAP_FAILED
  /\ \A fd \in attached :
       \E ch \in Chans : \E p \in 1..Len(pend_bds[ch]) : pend_bds[ch][p].buf_fd = fd

\* C2 (stop is idempotent): over any sequence of calls, the release loop of
\* stop_profiling (hardware reset and release of each resource of the
\* session) runs at most once per handle.
C2_StopIdempotent ==
  \A h \in DOMAIN stopRuns : stopRuns[h] <= 1

\* the name is in the GMIO table / the PLIO table (by name or logical name)
InGmioTable(nm) == \E i \in 1..Len(gmios) : gmios[i].name = nm
InPlioTable(nm) ==
  \E i \in 1..Len(plios) : plios[i].name = nm \/ plios[i].logical_name = nm

NoneFree(own) == \A i \in DOMAIN own : own[i] # FREE

\* C3 (partial acquisition is unwound): a start_profiling that passed its
\* checks and finds no free counter, or no free event port, or neither, throws
\* the resource error (-EAGAIN) and leaves the tile's pool, the routing
\* programmed in hardware and the session list as they were.
C3_PartialAcquisitionUnwound ==
  [][\A option \in ProfOptions, nm \in PortNames :
       ( /\ devInst
         /\ option = IO_STREAM_RUNNING_EVENT_COUNT
         /\ InGmioTable(nm) # InPlioTable(nm)
         /\ NoneFree(counterOwner) \/ NoneFree(portOwner)
         /\ start_profiling(option, nm) )
         => /\ ret'.code = "EAGAIN"
            /\ ret'.msg = "resource_exhausted"
            /\ UNCHANGED << counterOwner, portOwner, perfCtl, strmPort,
                            eventRecords >>]_vars

\* the event port was granted and the counter refused
C3_Witness ==
  /\ ret.fn = "start_profiling"
  /\ ret.msg = "resource_exhausted"
  /\ NoneFree(counterOwner)
  /\ ~NoneFree(portOwner)

\* C4 (ambiguous or unknown port, unknown option): start_profiling with an
\* option other than the supported one, with a name in both tables or with a
\* name in neither throws -EINVAL with the matching diagnostic; the pool, the
\* hardware routing and the session list are as before the call.
C4_AmbiguousRejected ==
  [][\A option \in ProfOptions, nm \in PortNames :
       (start_profiling(option, nm) /\ devInst)
         => LET expected ==
                  IF option # IO_STREAM_RUNNING_EVENT_COUNT THEN "unknown_option"
                  ELSE IF InGmioTable(nm) /\ InPlioTable(nm) THEN "ambiguous_port"
                  ELSE IF ~InGmioTable(nm) /\ ~InPlioTable(nm) THEN "port_not_found"
                  ELSE ""
            IN expected # ""
                 => /\ ret'.code = "EINVAL"
                    /\ ret'.msg = expected
                    /\ UNCHANGED << counterOwner, portOwner, perfCtl, strmPort,
                                    eventRecords >>]_vars

\* an ambiguous name was refused while resources were free to take
C4_Witness ==
  /\ ret.fn = "start_profiling"
  /\ ret.msg = "ambiguous_port"
  /\ ~NoneFree(counterOwner)
  /\ ~NoneFree(portOwner)

\* C11 (wait): wait_gmio on an existing port returns normally only from a
\* state in which the hardware queue of the port's channel and direction is
\* empty; on return pend_bds of the channel is empty and no slot that was
\* pending is still attached to the DMA address space or mapped.
C11_Wait ==
  [][(pc = "wait" /\ cur.op = "wait_gmio" /\ pc' = "ready" /\ ret'.code = "OK")
       => /\ hwq[CurKey] = << >>
          /\ hwq'[CurKey] = << >>
          /\ pend_bds'[CurChan] = << >>
          /\ pend_gap'[CurChan] = 0
          /\ \A p \in 1..Len(pend_bds[CurChan]) :
               /\ pend_bds[CurChan][p].buf_fd \notin attached'
               /\ pend_bds[CurChan][p].vaddr \notin mapped'
               /\ \E i \in 1..Len(idle_bds'[CurChan]) :
                    /\ idle_bds'[CurChan][i].tk = pend_bds[CurChan][p].tk
                    /\ idle_bds'[CurChan][i].vaddr = NULL]_vars

\* a wait_gmio has returned normally after draining two pending slots
C11_Witness ==
  /\ pc = "ready"
  /\ ret.fn = "wait_gmio"
  /\ ret.code = "OK"
  /\ \E i, j \in 1..Len(rlog) :
       i < j /\ rlog[i].site = "wait" /\ rlog[j].site = "wait" /\ rlog[i].ok /\ rlog[j].ok

\* C12 (non-blocking sync): when sync_bo_nb returns normally, the descriptor
\* it pushed is still queued in hardware, its slot is the last of the
\* channel's pend_bds, and the slot's buffer is attached and mapped; and a
\* slot enters idle_bds only in a step of the spin-wait drain or of
\* wait_sync_bo.
C12_NonBlockingSync ==
  [][/\ (ret'.fn = "sync_bo_nb" /\ ret'.code = "OK" /\ nprep' = nprep + 1)
          => \A k \in HwKeys :
               Len(hwq'[k]) > Len(hwq[k])
                 => LET e == hwq'[k][Len(hwq'[k])]
                        q == pend_bds'[gmios[e.g].channel_number]
                    IN /\ q # << >>
                       /\ q[Len(q)].tk = e.tk
                       /\ q[Len(q)].buf_fd \in attached'
                       /\ q[Len(q)].vaddr \in mapped'
     /\ \A ch \in Chans :
          Len(idle_bds'[ch]) > Len(idle_bds[ch]) => pc \in {"spin", "wait"}]_vars

\* C13 (session handles): a start_profiling that succeeds returns the index
\* at which its record was appended, one above every index in use before;
\* every other step leaves the session list as it was.  Hence the list never
\* shrinks, handles increase strictly and none is returned twice.
C13_SessionHandles ==
  [][IF \E option \in ProfOptions, nm \in PortNames :
          start_profiling(option, nm) /\ ret'.code = "OK"
     THEN /\ ret'.val = Len(eventRecords)
          /\ Len(eventRecords') = Len(eventRecords) + 1
          /\ \A i \in 1..Len(eventRecords) : eventRecords'[i] = eventRecords[i]
          /\ orderLog'[ret'.val].req # << >>
          /\ orderLog[ret'.val].req = << >>
     ELSE eventRecords' = eventRecords]_vars

\* a second session was started after the first was stopped, and got handle 1
C13_Witness ==
  /\ ret.fn = "start_profiling"
  /\ ret.code = "OK"
  /\ ret.val = 1
  /\ stopRuns[0] > 0

\* C14 (stopped state): once stop_profiling has run on an in-range active
\* handle h, the record is still at index h, its option is marked inactive (it
\* fails the test that guards stop), and the pool holds nothing for h.
C14_StoppedState ==
  \A h \in DOMAIN stopRuns :
    stopRuns[h] >= 1
      => /\ h < Len(eventRecords)
         /\ ~StopGuard(h)
         /\ \A c \in DOMAIN counterOwner : counterOwner[c] # h
         /\ \A p \in DOMAIN portOwner : portOwner[p] # h

\* C15 (use after teardown): once reset has succeeded, every later call of
\* start_profiling, read_profiling, stop_profiling or reset throws the
\* not-initialized error and leaves the pool, the session list and the count
\* of release-loop runs as they were.  (Here a failure is injected only into
\* reset, so faults = 0 with no device instance means reset succeeded.)
C15_UseAfterTeardown ==
  [][( /\ ~devInst
       /\ faults = 0
       /\ \/ \E option \in ProfOptions, nm \in PortNames : start_profiling(option, nm)
          \/ \E phdl \in (-1)..MaxSessions : read_profiling(phdl)
          \/ \E phdl \in (-1)..MaxSessions : stop_profiling(phdl)
          \/ \E fail \in BOOLEAN : reset(fail) )
       => /\ ret'.code = "EINVAL"
          /\ ret'.msg = "not_initialized"
          /\ UNCHANGED << counterOwner, portOwner, eventRecords, stopRuns >>]_vars

\* the first resource recorded for handle phdl is a performance counter
CounterFirst(records, phdl) ==
  records[phdl + 1].acquiredResources[1].resource = "performance_counter"

\* C16 (counter first): the first resource of every session record is its
\* performance counter, and read_profiling on a handle of the session list
\* throws exactly when the first resource of the record is no performance
\* counter; so it never throws on a handle start_profiling returned.
C16_CounterFirst ==
  [][/\ \A h \in 0..(Len(eventRecords') - 1) : CounterFirst(eventRecords', h)
     /\ \A phdl \in 0..(Len(eventRecords) - 1) :
          read_profiling(phdl)
            => /\ ret'.code = "OK" <=> CounterFirst(eventRecords, phdl)
               /\ ret'.code # "OK" => (ret'.code = "EAGAIN" /\ ret'.val = -1)
               /\ ret'.code = "OK"]_vars

\* read_profiling has returned a value for the second session, no call having
\* named a handle out of range
C16_Witness ==
  /\ ret.fn = "read_profiling"
  /\ ret.code = "OK"
  /\ ~ub
  /\ Len(eventRecords) = 2

\* C17 (no in-flight release): clear_bd is never called on a descriptor the
\* hardware has not completed, neither by the spin-wait drain nor by
\* wait_sync_bo, also when two ports of opposite directions share a channel
\* number.
C17_NoInFlightRelease ==
  \A i \in 1..Len(rlog) : rlog[i].tk # 0 => ~rlog[i].inflight

\* the ids of the slots of a queue
BdNums(q) == {q[i].bd_num : i \in 1..Len(q)}

\* the channel has a GMIO port
HasPort(ch) == \E i \in 1..Len(gmios) : gmios[i].channel_number = ch

\* C18 (slot identity at initialization): in the state construction leaves,
\* every channel with a GMIO port holds exactly maxqSize idle slots, with the
\* ids chan*maxqSize .. chan*maxqSize+maxqSize-1 in this order, so that each
\* id occurs once; this for every GMIO table, also one in which two ports name
\* the same channel.
C18_SlotIdentity ==
  (pc = "ready" /\ ret = NoRet)
    => \A ch \in Chans :
         HasPort(ch)
           => /\ Len(idle_bds[ch]) = maxqSize
              /\ \A i \in 1..Len(idle_bds[ch]) :
                   idle_bds[ch][i].bd_num = ch * maxqSize + (i - 1)
              /\ Cardinality(BdNums(idle_bds[ch])) = Len(idle_bds[ch])

\* C19 (binding lifecycle): every mapping made by prepare_bd is released by
\* clear_bd at most once: no two calls of clear_bd (each unmaps) are made on
\* the binding of one submission, also when the detach step of the first
\* failed.
C19_BindingLifecycle ==
  \A i, j \in 1..Len(rlog) :
    (i < j /\ rlog[i].tk # 0) => rlog[i].tk # rlog[j].tk

\* the resource kinds of the record of handle h, in the order of the record
RecordKinds(h) ==
  [i \in 1..Len(eventRecords[h + 1].acquiredResources) |->
     eventRecords[h + 1].acquiredResources[i].resource]

Reverse(q) == [i \in 1..Len(q) |-> q[Len(q) + 1 - i]]

\* C20 (stop release order), as the claim states it: stop_profiling resets
\* and releases the resources of a session in the order in which
\* start_profiling requested them from the pool.
C20_StopInRequestOrder ==
  \A h \in DOMAIN orderLog :
    orderLog[h].rel # << >> => orderLog[h].rel = orderLog[h].req

\* C20 (stop release order), amended: stop_profiling resets and releases the
\* resources of a session in the order of its record, the performance counter
\* first and the stream event port second, which is the reverse of the order
\* in which start_profiling requested them from the pool.
C20_StopInRecordOrder ==
  \A h \in DOMAIN orderLog :
    orderLog[h].rel # << >>
      => /\ orderLog[h].rel = RecordKinds(h)
         /\ orderLog[h].rel = << "performance_counter", "stream_switch_event_port" >>
         /\ orderLog[h].rel = Reverse(orderLog[h].req)

\* the second session has been stopped
C20_Witness ==
  /\ ret.fn = "stop_profiling"
  /\ orderLog[1].rel # << >>

\* C21 (spin-wait drain bound): whenever submit_sync_bo finds idle_bds empty,
\* the number of entries one pass of its drain loop removes, maxqSize minus
\* the hardware pending count, is at most the size of pend_bds; front() and
\* pop() are never applied to an empty pend_bds.
C21_SpinDrainBound ==
  /\ pc = "spin" => maxqSize - Len(hwq[CurKey]) <= Len(pend_bds[CurChan])
  /\ ~ub

\* the handles of the session list whose record has an active option
ActiveHandles == { h \in 0..(Len(eventRecords) - 1) : StopGuard(h) }

\* the resources the record of handle h lists, as (kind, id) pairs
ListedResources(h) ==
  { << eventRecords[h + 1].acquiredResources[i].resource,
       eventRecords[h + 1].acquiredResources[i].id >> :
      i \in 1..Len(eventRecords[h + 1].acquiredResources) }

\* the resources the pool holds allocated to profiling sessions
PoolAllocated ==
  { << "performance_counter", c >> : c \in { x \in DOMAIN counterOwner : counterOwner[x] >= 0 } }
    \cup { << "stream_switch_event_port", p >> : p \in { x \in DOMAIN portOwner : portOwner[x] >= 0 } }

\* C22 (resource exclusivity): no performance counter and no stream event
\* port is listed by two session records that both have an active option, and
\* the resources the pool holds allocated to sessions are exactly those the
\* active records list (none leaked, none released while still listed).
C22_ResourceExclusivity ==
  /\ \A h1, h2 \in ActiveHandles :
       h1 # h2 => ListedResources(h1) \cap ListedResources(h2) = {}
  /\ PoolAllocated = UNION { ListedResources(h) : h \in ActiveHandles }

\* C23 (read is confined to allocated sessions): read_profiling on a handle
\* of the session list returns a counter value only while the pool still
\* holds the counter of the record allocated to that handle.  (Handles
\* outside the list are left out here: the read is undefined for them.)
C23_ReadConfined ==
  [][\A phdl \in 0..(Len(eventRecords) - 1) :
       (read_profiling(phdl) /\ ret'.code = "OK")
         => counterOwner[eventRecords[phdl + 1].acquiredResources[1].id] = phdl]_vars

====
